---- MODULE Spec2Model ----
(***************************************************************************)
(* A model of src/main.rs: the SpriteAnimation frame timer, the Player     *)
(* (animation table, position, active animation) and the main loop that    *)
(* polls the four movement keys.                                           *)
(*                                                                         *)
(* The specifications share the variables:                                 *)
(*   SpecAnim       one SpriteAnimation built with arbitrary parameters    *)
(*                  and driven by animate() and draw();                    *)
(*   SpecPlayer     one Player driven by arbitrary calls of its methods;   *)
(*   SpecPlayerFar  the same, also from the Player a long run of moves     *)
(*                  leaves where f32 addition of the speed is inexact;     *)
(*   Spec           the program: main's startup and its loop;              *)
(*   SpecFar        the same, also from the loop state a long run with A   *)
(*                  held leaves.                                           *)
(***************************************************************************)
EXTENDS Integers, Sequences, FiniteSets, TLC

VARIABLES
    sprite,      \* SpecAnim: the SpriteAnimation under test
    ticks,       \* SpecAnim: number of animate() calls made on sprite
    player,      \* the Player struct
    sheet,       \* the texture (width, height) a sprite-sheet file decodes to
    drawn,       \* the rectangles of the last draw_texture_pro call, or NotDrawn
    keysDown,    \* raylib's current key state: the movement keys that are down
    keysPrev,    \* raylib's previous key state (of the poll before)
    loaded,      \* Spec: number of add_animation calls main has made
    pc,          \* position in main / state of the driver
    fatal,       \* "none", or the panic that ended the process
    lastCall,    \* SpecPlayer: the method called last, with its argument
    steps        \* calls made (SpecPlayer) or loop iterations begun (Spec)

vars == <<sprite, ticks, player, sheet, drawn, keysDown, keysPrev, loaded, pc,
          fatal, lastCall, steps>>

----------------------------------------------------------------------------
(* Bounds of the model *)

\* SpecAnim: largest num_frames tried
MaxFrames == 8
\* SpecAnim: largest number of animate() calls on one animation
MaxTicks == 25
\* largest frame width, in pixels, of a loaded sprite sheet
MaxFrameWidth == 2
\* SpecPlayer: largest number of method calls after Player::new
MaxCalls == 4
\* Spec: largest number of loop iterations explored from an initial state
MaxIter == 3

(* Program constants *)

\* the 60 of `60 / self.anim_speed` and of set_target_fps(60)
TicksPerSecond == 60
\* num_frames of every add_animation call of main
HeroFrames == 8
\* speed (the tick divisor) of every add_animation call of main
HeroAnimSpeed == 20
\* the speed argument of Player::new in main (2.0)
HeroSpeed == 2

----------------------------------------------------------------------------
(* f32 arithmetic on integer values.  An f32 has a 24 bit significand: an  *)
(* integer of magnitude below 2^24 is exact, above it the representable    *)
(* values are the multiples of the unit in the last place, and a result is *)
(* rounded to the nearest of them, a tie to the one with the even          *)
(* significand.                                                            *)

F32Exact == 2^24

Abs(v) == IF v < 0 THEN -v ELSE v

RECURSIVE F32Ulp(_, _)
F32Ulp(a, u) == IF a < F32Exact * u THEN u ELSE F32Ulp(a, 2 * u)

F32RoundAbs(a) ==
    LET u == F32Ulp(a, 1)
        q == a \div u
        r == a % u
    IN  IF 2 * r < u THEN q * u
        ELSE IF 2 * r > u THEN (q + 1) * u
        ELSE IF q % 2 = 0 THEN q * u ELSE (q + 1) * u

F32Round(v) == IF v < 0 THEN -F32RoundAbs(-v) ELSE F32RoundAbs(v)

\* a + b and a - b of two f32 values
F32Add(a, b) == F32Round(a + b)
F32Sub(a, b) == F32Round(a - b)

----------------------------------------------------------------------------
(* SpriteAnimation *)

\* `sprite.width as f32 / num_frames as f32`: the quotient, kept as the
\* fraction num/den (exact in f32 whenever num_frames divides the width)
FrameWidthOf(width, num_frames) == [num |-> width, den |-> num_frames]

SpriteAnimation_new(texture, num_frames, speed) ==
    [ texture        |-> texture,
      frame_width    |-> FrameWidthOf(texture.width, num_frames),
      num_frames     |-> num_frames,
      current_frame  |-> 0,
      frames_counter |-> 0,
      anim_speed     |-> speed ]

\* mutant of SpriteAnimation_animate: the wrap test is off by one
SpriteAnimation_animate_WrapLate(a) ==
    LET c == a.frames_counter + 1
    IN  IF c >= TicksPerSecond \div a.anim_speed
        THEN [a EXCEPT !.frames_counter = 0,
                       !.current_frame =
                           IF a.current_frame + 1 > a.num_frames
                           THEN 0 ELSE a.current_frame + 1]
        ELSE [a EXCEPT !.frames_counter = c]

\* mutant of SpriteAnimation_animate: the threshold must be exceeded
SpriteAnimation_animate_StrictThreshold(a) ==
    LET c == a.frames_counter + 1
    IN  IF c > TicksPerSecond \div a.anim_speed
        THEN [a EXCEPT !.frames_counter = 0,
                       !.current_frame =
                           IF a.current_frame + 1 > a.num_frames - 1
                           THEN 0 ELSE a.current_frame + 1]
        ELSE [a EXCEPT !.frames_counter = c]

SpriteAnimation_animate(a) ==
    LET c == a.frames_counter + 1
    IN  IF c >= TicksPerSecond \div a.anim_speed
        THEN [a EXCEPT !.frames_counter = 0,
                       !.current_frame =
                           IF a.current_frame + 1 > a.num_frames - 1
                           THEN 0 ELSE a.current_frame + 1]
        ELSE [a EXCEPT !.frames_counter = c]

\* mutant of SpriteAnimation_draw: the offset of the frame after the current
SpriteAnimation_draw_NextFrame(a, pos) ==
    [ source_rec |-> [ x |-> [num |-> (a.current_frame + 1) * a.frame_width.num,
                              den |-> a.frame_width.den],
                       y |-> 0,
                       width  |-> a.frame_width,
                       height |-> a.texture.height ],
      dest_rec   |-> [ x |-> pos.x, y |-> pos.y,
                       width  |-> a.frame_width,
                       height |-> a.texture.height ] ]

\* the rectangles draw() hands to draw_texture_pro; the x offset
\* `current_frame as f32 * frame_width` and the width are fractions
SpriteAnimation_draw(a, pos) ==
    [ source_rec |-> [ x |-> [num |-> a.current_frame * a.frame_width.num,
                              den |-> a.frame_width.den],
                       y |-> 0,
                       width  |-> a.frame_width,
                       height |-> a.texture.height ],
      dest_rec   |-> [ x |-> pos.x, y |-> pos.y,
                       width  |-> a.frame_width,
                       height |-> a.texture.height ] ]

----------------------------------------------------------------------------
(* AnimationType, Direction *)

Direction == {"UP", "DOWN", "LEFT", "RIGHT"}

Idle(d) == [mode |-> "Idle", dir |-> d]
Run(d)  == [mode |-> "Run", dir |-> d]

AnimationType == {Idle(d) : d \in Direction} \cup {Run(d) : d \in Direction}

----------------------------------------------------------------------------
(* Player *)

Player_new(x, y, width, height, speed) ==
    [ collision         |-> [x |-> x, y |-> y, width |-> width, height |-> height],
      animations        |-> << >>,
      pos               |-> [x |-> 0, y |-> 0],
      current_animation |-> Idle("DOWN"),
      is_moving         |-> FALSE,
      speed             |-> speed ]

\* HashMap::insert: the entry of animation_type is added or replaced
MapInsert(m, k, v) ==
    [kk \in DOMAIN m \cup {k} |-> IF kk = k THEN v ELSE m[kk]]

\* add_animation once load_texture has returned Ok(texture)
Player_add_animation(p, texture, animation_type, num_frames, speed) ==
    [p EXCEPT !.animations =
        MapInsert(p.animations, animation_type,
                  SpriteAnimation_new(texture, num_frames, speed))]

\* mutant of Player_change_animation: the animation switched to restarts
Player_change_animation_Restart(p, animation_type) ==
    [p EXCEPT !.current_animation = animation_type,
              !.animations =
                  [k \in DOMAIN p.animations |->
                      IF k = animation_type
                      THEN [p.animations[k] EXCEPT !.current_frame = 0,
                                                   !.frames_counter = 0]
                      ELSE p.animations[k]]]

Player_change_animation(p, animation_type) ==
    [p EXCEPT !.current_animation = animation_type]

\* mutant of Player_animate: a missing animation is skipped silently
Player_animate_Silent(p) ==
    IF p.current_animation \in DOMAIN p.animations
    THEN [ panic  |-> FALSE,
           player |-> [p EXCEPT !.animations[p.current_animation] =
                          SpriteAnimation_animate(@)] ]
    ELSE [ panic |-> FALSE, player |-> p ]

\* get_mut(..).expect(..) panics on a missing key, before anything is changed
Player_animate(p) ==
    IF p.current_animation \in DOMAIN p.animations
    THEN [ panic  |-> FALSE,
           player |-> [p EXCEPT !.animations[p.current_animation] =
                          SpriteAnimation_animate(@)] ]
    ELSE [ panic |-> TRUE, player |-> p ]

\* get(..).expect(..) panics on a missing key; draw changes no field
Player_draw(p) ==
    IF p.current_animation \in DOMAIN p.animations
    THEN [ panic |-> FALSE,
           drawn |-> <<SpriteAnimation_draw(p.animations[p.current_animation],
                                            p.pos)>> ]
    ELSE [ panic |-> TRUE, drawn |-> << >> ]

\* mutant of Player_move_player: LEFT and RIGHT are swapped
Player_move_player_Swapped(p, dir) ==
    LET moved ==
            CASE dir = "UP"    -> [p EXCEPT !.pos.y = F32Sub(p.pos.y, p.speed)]
              [] dir = "DOWN"  -> [p EXCEPT !.pos.y = F32Add(p.pos.y, p.speed)]
              [] dir = "RIGHT" -> [p EXCEPT !.pos.x = F32Sub(p.pos.x, p.speed)]
              [] dir = "LEFT"  -> [p EXCEPT !.pos.x = F32Add(p.pos.x, p.speed)]
    IN  Player_change_animation(moved, Run(dir))

Player_move_player(p, dir) ==
    LET moved ==
            CASE dir = "UP"    -> [p EXCEPT !.pos.y = F32Sub(p.pos.y, p.speed)]
              [] dir = "DOWN"  -> [p EXCEPT !.pos.y = F32Add(p.pos.y, p.speed)]
              [] dir = "RIGHT" -> [p EXCEPT !.pos.x = F32Add(p.pos.x, p.speed)]
              [] dir = "LEFT"  -> [p EXCEPT !.pos.x = F32Sub(p.pos.x, p.speed)]
    IN  Player_change_animation(moved, Run(dir))

----------------------------------------------------------------------------
(* Textures.  A sprite sheet holds its frames side by side, each            *)
(* frame_width pixels wide (spec.md, section 6: equal-width frames).        *)

SheetsOf(num_frames) ==
    { [width |-> num_frames * fw, height |-> 1] : fw \in 1..MaxFrameWidth }

HeroPlayer == Player_new(42, 58, 12, 28, HeroSpeed)

----------------------------------------------------------------------------
(* SpecAnim: one SpriteAnimation, any num_frames >= 1 and any speed in      *)
(* 1..60, under animate() and draw().                                       *)

AnimSpeeds == 1..TicksPerSecond

InitAnim ==
    /\ \E n \in 1..MaxFrames : \E t \in SheetsOf(n) : \E s \in AnimSpeeds :
           sprite = SpriteAnimation_new(t, n, s)
    /\ ticks = 0
    /\ player = HeroPlayer
    /\ sheet = [width |-> HeroFrames, height |-> 1]
    /\ drawn = << >>
    /\ keysDown = {}
    /\ keysPrev = {}
    /\ loaded = 0
    /\ pc = "anim"
    /\ fatal = "none"
    /\ lastCall = <<"new">>
    /\ steps = 0

Anim_animate ==
    /\ ticks < MaxTicks
    /\ sprite' = SpriteAnimation_animate(sprite)
    /\ ticks' = ticks + 1
    /\ lastCall' = <<"animate">>
    /\ UNCHANGED <<player, sheet, drawn, keysDown, keysPrev, loaded, pc, fatal,
                   steps>>

Anim_draw ==
    /\ drawn' = <<SpriteAnimation_draw(sprite, player.pos)>>
    /\ lastCall' = <<"draw">>
    /\ UNCHANGED <<sprite, ticks, player, sheet, keysDown, keysPrev, loaded, pc,
                   fatal, steps>>

NextAnim == Anim_animate \/ Anim_draw

SpecAnim == InitAnim /\ [][NextAnim]_vars

----------------------------------------------------------------------------
(* SpecPlayer: one Player under arbitrary calls of its methods.            *)

PlayerSpeeds == {1, HeroSpeed}

\* the animations the driver adds: some keys stay missing
AddKeys == {Idle("DOWN"), Run("LEFT"), Run("RIGHT")}

\* The coordinate at which adding HeroSpeed is no longer exact in f32.  From
\* 0, k calls of move_player(RIGHT) give x = HeroSpeed * k exactly for every
\* k up to 2^24 (all multiples of 2 up to 2^25 are f32 values), so the
\* Player below is the one after 2^24 such calls.
FarCoord == F32Exact * HeroSpeed

FarPlayer ==
    [HeroPlayer EXCEPT !.pos.x = FarCoord, !.current_animation = Run("RIGHT")]

InitPlayerCommon ==
    /\ sheet \in SheetsOf(HeroFrames)
    /\ sprite = SpriteAnimation_new(sheet, HeroFrames, HeroAnimSpeed)
    /\ ticks = 0
    /\ drawn = << >>
    /\ keysDown = {}
    /\ keysPrev = {}
    /\ loaded = 0
    /\ pc = "player"
    /\ fatal = "none"
    /\ lastCall = <<"new">>
    /\ steps = 0

\* a Player after Player::new
InitPlayer ==
    /\ InitPlayerCommon
    /\ \E sp \in PlayerSpeeds : player = Player_new(42, 58, 12, 28, sp)

InitPlayerFar ==
    /\ InitPlayerCommon
    /\ player = FarPlayer

CallGuard == fatal = "none" /\ steps < MaxCalls

\* load_texture(..).unwrap() returned a texture
Call_add_animation ==
    /\ CallGuard
    /\ \E k \in AddKeys :
          /\ player' = Player_add_animation(player, sheet, k, HeroFrames,
                                            HeroAnimSpeed)
          /\ lastCall' = <<"add_animation", k>>
    /\ steps' = steps + 1
    /\ UNCHANGED <<sprite, ticks, sheet, drawn, keysDown, keysPrev, loaded, pc,
                   fatal>>

\* load_texture(..).unwrap() panicked: the file is missing or unreadable
Call_add_animation_LoadFails ==
    /\ CallGuard
    /\ fatal' = "load"
    /\ lastCall' = <<"add_animation">>
    /\ steps' = steps + 1
    /\ UNCHANGED <<sprite, ticks, player, sheet, drawn, keysDown, keysPrev,
                   loaded, pc>>

Call_change_animation ==
    /\ CallGuard
    /\ \E k \in AnimationType :
          /\ player' = Player_change_animation(player, k)
          /\ lastCall' = <<"change_animation", k>>
    /\ steps' = steps + 1
    /\ UNCHANGED <<sprite, ticks, sheet, drawn, keysDown, keysPrev, loaded, pc,
                   fatal>>

Call_move_player ==
    /\ CallGuard
    /\ \E d \in Direction :
          /\ player' = Player_move_player(player, d)
          /\ lastCall' = <<"move_player", d>>
    /\ steps' = steps + 1
    /\ UNCHANGED <<sprite, ticks, sheet, drawn, keysDown, keysPrev, loaded, pc,
                   fatal>>

Call_animate ==
    /\ CallGuard
    /\ LET r == Player_animate(player)
       IN  /\ player' = r.player
           /\ fatal' = IF r.panic THEN "lookup" ELSE fatal
    /\ lastCall' = <<"animate">>
    /\ steps' = steps + 1
    /\ UNCHANGED <<sprite, ticks, sheet, drawn, keysDown, keysPrev, loaded, pc>>

Call_draw ==
    /\ CallGuard
    /\ LET r == Player_draw(player)
       IN  /\ drawn' = IF r.panic THEN drawn ELSE r.drawn
           /\ fatal' = IF r.panic THEN "lookup" ELSE fatal
    /\ lastCall' = <<"draw">>
    /\ steps' = steps + 1
    /\ UNCHANGED <<sprite, ticks, player, sheet, keysDown, keysPrev, loaded, pc>>

NextPlayer ==
    \/ Call_add_animation
    \/ Call_add_animation_LoadFails
    \/ Call_change_animation
    \/ Call_move_player
    \/ Call_animate
    \/ Call_draw

SpecPlayer == InitPlayer /\ [][NextPlayer]_vars

\* a Player from Player::new or from the far right
SpecPlayerFar == (InitPlayer \/ InitPlayerFar) /\ [][NextPlayer]_vars

----------------------------------------------------------------------------
(* Spec: main.  Startup makes the eight add_animation calls, then the loop *)
(* runs: input handling, player.animate(), player.draw(), and the end of   *)
(* the frame, where raylib polls the keyboard.                             *)

Keys == {"KEY_A", "KEY_D", "KEY_S", "KEY_W"}

\* the animation_type arguments of main's add_animation calls, in order
StartupCalls ==
    << Idle("DOWN"), Idle("UP"), Idle("RIGHT"), Idle("LEFT"),
       Run("DOWN"), Run("UP"), Run("RIGHT"), Run("LEFT") >>

\* raylib's is_key_down: the key is down in the current key state
IsKeyDown(down, key) == key \in down

\* raylib's is_key_released: down at the poll before, up at the last poll
IsKeyReleased(prev, down, key) == key \in prev /\ key \notin down

\* mutant of HandleInput: the releases are handled before the key-downs
HandleInput_ReleaseFirst(p, prev, down) ==
    LET r1 == IF IsKeyReleased(prev, down, "KEY_A")
              THEN Player_change_animation(p, Idle("LEFT")) ELSE p
        r2 == IF IsKeyReleased(prev, down, "KEY_D")
              THEN Player_change_animation(r1, Idle("RIGHT")) ELSE r1
        r3 == IF IsKeyReleased(prev, down, "KEY_S")
              THEN Player_change_animation(r2, Idle("DOWN")) ELSE r2
        r4 == IF IsKeyReleased(prev, down, "KEY_W")
              THEN Player_change_animation(r3, Idle("UP")) ELSE r3
        d1 == IF IsKeyDown(down, "KEY_A")
              THEN Player_move_player(r4, "LEFT") ELSE r4
        d2 == IF IsKeyDown(down, "KEY_D")
              THEN Player_move_player(d1, "RIGHT") ELSE d1
        d3 == IF IsKeyDown(down, "KEY_S")
              THEN Player_move_player(d2, "DOWN") ELSE d2
        d4 == IF IsKeyDown(down, "KEY_W")
              THEN Player_move_player(d3, "UP") ELSE d3
    IN  d4

\* mutant of HandleInput: the S and W key-downs are handled in the other order
HandleInput_UpBeforeDown(p, prev, down) ==
    LET d1 == IF IsKeyDown(down, "KEY_A")
              THEN Player_move_player(p, "LEFT") ELSE p
        d2 == IF IsKeyDown(down, "KEY_D")
              THEN Player_move_player(d1, "RIGHT") ELSE d1
        d3 == IF IsKeyDown(down, "KEY_W")
              THEN Player_move_player(d2, "UP") ELSE d2
        d4 == IF IsKeyDown(down, "KEY_S")
              THEN Player_move_player(d3, "DOWN") ELSE d3
        r1 == IF IsKeyReleased(prev, down, "KEY_A")
              THEN Player_change_animation(d4, Idle("LEFT")) ELSE d4
        r2 == IF IsKeyReleased(prev, down, "KEY_D")
              THEN Player_change_animation(r1, Idle("RIGHT")) ELSE r1
        r3 == IF IsKeyReleased(prev, down, "KEY_S")
              THEN Player_change_animation(r2, Idle("DOWN")) ELSE r2
        r4 == IF IsKeyReleased(prev, down, "KEY_W")
              THEN Player_change_animation(r3, Idle("UP")) ELSE r3
    IN  r4

\* mutant of HandleInput: the release of W is not handled
HandleInput_NoReleaseW(p, prev, down) ==
    LET d1 == IF IsKeyDown(down, "KEY_A")
              THEN Player_move_player(p, "LEFT") ELSE p
        d2 == IF IsKeyDown(down, "KEY_D")
              THEN Player_move_player(d1, "RIGHT") ELSE d1
        d3 == IF IsKeyDown(down, "KEY_S")
              THEN Player_move_player(d2, "DOWN") ELSE d2
        d4 == IF IsKeyDown(down, "KEY_W")
              THEN Player_move_player(d3, "UP") ELSE d3
        r1 == IF IsKeyReleased(prev, down, "KEY_A")
              THEN Player_change_animation(d4, Idle("LEFT")) ELSE d4
        r2 == IF IsKeyReleased(prev, down, "KEY_D")
              THEN Player_change_animation(r1, Idle("RIGHT")) ELSE r1
        r3 == IF IsKeyReleased(prev, down, "KEY_S")
              THEN Player_change_animation(r2, Idle("DOWN")) ELSE r2
    IN  r3

\* the eight ifs at the head of the loop body, in the order of the code
HandleInput(p, prev, down) ==
    LET d1 == IF IsKeyDown(down, "KEY_A")
              THEN Player_move_player(p, "LEFT") ELSE p
        d2 == IF IsKeyDown(down, "KEY_D")
              THEN Player_move_player(d1, "RIGHT") ELSE d1
        d3 == IF IsKeyDown(down, "KEY_S")
              THEN Player_move_player(d2, "DOWN") ELSE d2
        d4 == IF IsKeyDown(down, "KEY_W")
              THEN Player_move_player(d3, "UP") ELSE d3
        r1 == IF IsKeyReleased(prev, down, "KEY_A")
              THEN Player_change_animation(d4, Idle("LEFT")) ELSE d4
        r2 == IF IsKeyReleased(prev, down, "KEY_D")
              THEN Player_change_animation(r1, Idle("RIGHT")) ELSE r1
        r3 == IF IsKeyReleased(prev, down, "KEY_S")
              THEN Player_change_animation(r2, Idle("DOWN")) ELSE r2
        r4 == IF IsKeyReleased(prev, down, "KEY_W")
              THEN Player_change_animation(r3, Idle("UP")) ELSE r3
    IN  r4

\* mutant of StartupCount: main stops after seven add_animation calls
StartupCount_Seven == Len(StartupCalls) - 1

\* the number of add_animation calls main makes before the loop
StartupCount == Len(StartupCalls)

\* A SpriteAnimation of main after n calls of animate(): 60 / 20 = 3 ticks
\* a frame, 8 frames a cycle
HeroAnimationAfter(texture, n) ==
    [SpriteAnimation_new(texture, HeroFrames, HeroAnimSpeed) EXCEPT
        !.frames_counter = n % (TicksPerSecond \div HeroAnimSpeed),
        !.current_frame = (n \div (TicksPerSecond \div HeroAnimSpeed)) % HeroFrames]

\* The Player of main at the head of the loop after one iteration with no
\* key down followed by 2^24 iterations with only A down: x = -2 * k is exact
\* for every k up to 2^24, Idle(DOWN) was advanced once and Run(LEFT) 2^24
\* times, the other six animations never.
FarLoopPlayer(texture) ==
    [HeroPlayer EXCEPT
        !.pos.x = -FarCoord,
        !.current_animation = Run("LEFT"),
        !.animations =
            [k \in AnimationType |->
                IF k = Idle("DOWN") THEN HeroAnimationAfter(texture, 1)
                ELSE IF k = Run("LEFT") THEN HeroAnimationAfter(texture, F32Exact)
                ELSE HeroAnimationAfter(texture, 0)]]

InitCommon ==
    /\ sheet \in SheetsOf(HeroFrames)
    /\ sprite = SpriteAnimation_new(sheet, HeroFrames, HeroAnimSpeed)
    /\ ticks = 0
    /\ fatal = "none"
    /\ lastCall = <<"new">>
    /\ steps = 0

\* main after Player::new
Init ==
    /\ InitCommon
    /\ player = HeroPlayer
    /\ loaded = 0
    /\ pc = "startup"
    /\ drawn = << >>
    /\ keysDown = {}
    /\ keysPrev = {}

\* main at the head of the loop with the player at the far left, A still
\* held and D held or not
InitFar ==
    /\ InitCommon
    /\ player = FarLoopPlayer(sheet)
    /\ loaded = StartupCount
    /\ pc = "loop"
    /\ drawn = Player_draw(player).drawn
    /\ keysDown \in {{"KEY_A"}, {"KEY_A", "KEY_D"}}
    /\ keysPrev = {"KEY_A"}

\* one add_animation call of main whose load_texture(..).unwrap() succeeds;
\* after the last one, set_target_fps and the first test of the loop
Startup_add_animation ==
    /\ pc = "startup"
    /\ loaded < StartupCount
    /\ player' = Player_add_animation(player, sheet, StartupCalls[loaded + 1],
                                      HeroFrames, HeroAnimSpeed)
    /\ loaded' = loaded + 1
    /\ pc' = IF loaded + 1 = StartupCount THEN "loop" ELSE "startup"
    /\ lastCall' = <<"add_animation", StartupCalls[loaded + 1]>>
    /\ UNCHANGED <<sprite, ticks, sheet, drawn, keysDown, keysPrev, fatal, steps>>

\* load_texture(..).unwrap() panics: the process aborts before the loop
Startup_load_fails ==
    /\ pc = "startup"
    /\ loaded < StartupCount
    /\ fatal' = "load"
    /\ pc' = "aborted"
    /\ lastCall' = <<"add_animation">>
    /\ UNCHANGED <<sprite, ticks, player, sheet, drawn, keysDown, keysPrev,
                   loaded, steps>>

\* window_should_close() is true: main returns
Loop_exit ==
    /\ pc = "loop"
    /\ pc' = "closed"
    /\ lastCall' = <<"exit">>
    /\ UNCHANGED <<sprite, ticks, player, sheet, drawn, keysDown, keysPrev,
                   loaded, fatal, steps>>

\* the input handling of one iteration
Loop_input ==
    /\ pc = "loop"
    /\ steps < MaxIter
    /\ player' = HandleInput(player, keysPrev, keysDown)
    /\ pc' = "animate"
    /\ lastCall' = <<"input">>
    /\ steps' = steps + 1
    /\ UNCHANGED <<sprite, ticks, sheet, drawn, keysDown, keysPrev, loaded, fatal>>

\* player.animate()
Loop_animate ==
    /\ pc = "animate"
    /\ LET r == Player_animate(player)
       IN  /\ player' = r.player
           /\ fatal' = IF r.panic THEN "lookup" ELSE fatal
           /\ pc' = IF r.panic THEN "aborted" ELSE "draw"
    /\ lastCall' = <<"animate">>
    /\ UNCHANGED <<sprite, ticks, sheet, drawn, keysDown, keysPrev, loaded, steps>>

\* begin_drawing, clear_background, player.draw(&mut d), and the drop of d at
\* the end of the body: EndDrawing, where raylib polls the keyboard (the
\* current key state becomes the previous one, the new one is read)
Loop_draw ==
    /\ pc = "draw"
    /\ LET r == Player_draw(player)
       IN  /\ drawn' = IF r.panic THEN drawn ELSE r.drawn
           /\ fatal' = IF r.panic THEN "lookup" ELSE fatal
           /\ pc' = IF r.panic THEN "aborted" ELSE "loop"
           /\ IF r.panic
              THEN UNCHANGED <<keysDown, keysPrev>>
              ELSE /\ keysPrev' = keysDown
                   /\ keysDown' \in SUBSET Keys
    /\ lastCall' = <<"draw">>
    /\ UNCHANGED <<sprite, ticks, player, sheet, loaded, steps>>

Next ==
    \/ Startup_add_animation
    \/ Startup_load_fails
    \/ Loop_exit
    \/ Loop_input
    \/ Loop_animate
    \/ Loop_draw

Spec == Init /\ [][Next]_vars

\* the program, from its start or from the far left
SpecFar == (Init \/ InitFar) /\ [][Next]_vars

----------------------------------------------------------------------------
(* The claims on SpriteAnimation, under SpecAnim *)

\* C1: after any number of animate() calls on a new SpriteAnimation with
\* num_frames >= 1 and a speed in 1..60, current_frame is in [0, num_frames).
C1_FrameInRange ==
    /\ sprite.current_frame >= 0
    /\ sprite.current_frame < sprite.num_frames

\* a three-frame animation at one tick a frame has wrapped back to frame 0
C1_Witness ==
    /\ sprite.num_frames = 3
    /\ sprite.anim_speed = TicksPerSecond
    /\ ticks = 3
    /\ sprite.current_frame = 0

\* C2: after f animate() calls, current_frame = floor(f / (60 / speed)) mod
\* num_frames, with 60 / speed the integer threshold (and the tick counter is
\* f mod that threshold).
C2_FrameFormula ==
    LET threshold == TicksPerSecond \div sprite.anim_speed
    IN  /\ sprite.current_frame = (ticks \div threshold) % sprite.num_frames
        /\ sprite.frames_counter = ticks % threshold

\* num_frames = 8, speed = 20: the 24th tick wraps frame 7 back to frame 0
C2_Witness ==
    /\ sprite.num_frames = 8
    /\ sprite.anim_speed = 20
    /\ ticks = 24
    /\ sprite.current_frame = 0
    /\ sprite.frames_counter = 0

\* C7: for a texture that is num_frames frames of equal pixel width, the
\* source rectangle of every draw() has x = current_frame * frame_width,
\* x >= 0 and x + frame_width <= texture width.
C7_SourceInsideTexture ==
    (lastCall = <<"draw">> /\ sprite.texture.width % sprite.num_frames = 0) =>
        LET r  == drawn[1].source_rec
            fw == sprite.texture.width \div sprite.num_frames
        IN  /\ r.x.den = r.width.den
            /\ r.width.num = fw * r.width.den
            /\ r.x.num = sprite.current_frame * fw * r.x.den
            /\ r.x.num >= 0
            /\ r.x.num + r.width.num <= sprite.texture.width * r.x.den

\* the last frame of an eight-frame sheet has been drawn
C7_Witness ==
    /\ lastCall = <<"draw">>
    /\ sprite.num_frames = 8
    /\ sprite.current_frame = 7
    /\ sprite.texture.width = 16
    /\ drawn[1].source_rec.x.num = 14 * drawn[1].source_rec.x.den

----------------------------------------------------------------------------
(* The claims on Player, under SpecPlayer *)

\* the call of the step, when the step is a call of the driver
Called(name) == steps' = steps + 1 /\ lastCall'[1] = name

\* what move_player leaves alone, and the animation it selects
MoveFrame(d) ==
    /\ player'.current_animation = Run(d)
    /\ player'.animations = player.animations
    /\ player'.speed = player.speed
    /\ d \in {"UP", "DOWN"} => player'.pos.x = player.pos.x
    /\ d \in {"LEFT", "RIGHT"} => player'.pos.y = player.pos.y

\* the coordinate move_player(d) changes, before and after, and the signed step
MovedFrom(d) == IF d \in {"UP", "DOWN"} THEN player.pos.y ELSE player.pos.x
MovedTo(d) == IF d \in {"UP", "DOWN"} THEN player'.pos.y ELSE player'.pos.x
SignedSpeed(d) == IF d \in {"UP", "LEFT"} THEN -player.speed ELSE player.speed

\* C3 as stated: one move_player(d) sets the animation to Run(d) and changes
\* the position by exactly speed on the axis and sign of d, in every state.
C3_Original ==
    [][\A d \in Direction :
          (Called("move_player") /\ lastCall'[2] = d) =>
              /\ MoveFrame(d)
              /\ MovedTo(d) = MovedFrom(d) + SignedSpeed(d)]_vars

\* C3 as amended: one move_player(d) sets the animation to Run(d), leaves the
\* other coordinate and the animations alone, and sets the coordinate to the
\* f32 sum of coordinate and signed speed: a change by exactly speed whenever
\* that sum is an f32 value, as every integer of magnitude up to 2^24 is.
C3_MoveF32 ==
    [][\A d \in Direction :
          (Called("move_player") /\ lastCall'[2] = d) =>
              /\ MoveFrame(d)
              /\ MovedTo(d) = F32Round(MovedFrom(d) + SignedSpeed(d))
              /\ Abs(MovedFrom(d) + SignedSpeed(d)) <= F32Exact =>
                     MovedTo(d) = MovedFrom(d) + SignedSpeed(d)]_vars

\* from the origin, a move LEFT and then a move UP at speed 2
C3_Witness ==
    /\ lastCall = <<"move_player", "UP">>
    /\ player.speed = HeroSpeed
    /\ player.pos = [x |-> -HeroSpeed, y |-> -HeroSpeed]
    /\ player.current_animation = Run("UP")

\* C6: with the active key missing from the table, animate() and draw() end
\* in the fatal error and change no animation.
C6_MissingKeyIsFatal ==
    [][((Called("animate") \/ Called("draw"))
           /\ player.current_animation \notin DOMAIN player.animations) =>
          /\ fatal' = "lookup"
          /\ player' = player
          /\ drawn' = drawn]_vars

\* draw() has panicked on a table that holds animations, not the active one
C6_Witness ==
    /\ fatal = "lookup"
    /\ lastCall = <<"draw">>
    /\ DOMAIN player.animations # {}
    /\ player.current_animation \notin DOMAIN player.animations

----------------------------------------------------------------------------
(* The claims on the main loop, under Spec.  At pc = "animate" the input   *)
(* handling of the iteration is done: player is its result, keysDown and   *)
(* keysPrev are the key states it read.                                    *)

\* the direction each movement key stands for
KeyDirection(key) ==
    CASE key = "KEY_A" -> "LEFT"
      [] key = "KEY_D" -> "RIGHT"
      [] key = "KEY_S" -> "DOWN"
      [] key = "KEY_W" -> "UP"

\* the place of each key in the order the loop body tests them
KeyOrder(key) ==
    CASE key = "KEY_A" -> 1
      [] key = "KEY_D" -> 2
      [] key = "KEY_S" -> 3
      [] key = "KEY_W" -> 4

Released == {k \in Keys : IsKeyReleased(keysPrev, keysDown, k)}

\* the key of a non-empty set ks that the loop body tests last
LastOf(ks) == CHOOSE k \in ks : \A j \in ks : KeyOrder(j) <= KeyOrder(k)

InputStep == pc = "loop" /\ pc' = "animate"

\* C4 as stated: when the key of d is reported released, the animation after
\* input handling is Idle(d), whatever the other three keys do.
C4_Original ==
    pc = "animate" =>
        \A k \in Released : player.current_animation = Idle(KeyDirection(k))

\* C4 as amended: when keys are reported released, the animation after input
\* handling is Idle(d) for the released key of d that is last in the order
\* A, D, S, W, whatever keys are down; so a released key of d gives Idle(d)
\* unless a key later in that order is released in the same iteration.
C4_LastReleasedWins ==
    (pc = "animate" /\ Released # {}) =>
        player.current_animation = Idle(KeyDirection(LastOf(Released)))

\* A is released while D and W are down: the animation is Idle(LEFT)
C4_Witness ==
    /\ pc = "animate"
    /\ Released = {"KEY_A"}
    /\ keysDown = {"KEY_D", "KEY_W"}
    /\ player.current_animation = Idle("LEFT")

\* C5: once main has made its add_animation calls, the active key is always a
\* key of the table, and the lookup in animate() and draw() never fails.
C5_ActiveKeyPresent ==
    /\ fatal # "lookup"
    /\ pc \in {"loop", "animate", "draw", "closed"} =>
           player.current_animation \in DOMAIN player.animations

\* the loop has switched to the animation added last
C5_Witness ==
    /\ pc = "draw"
    /\ steps = 2
    /\ player.current_animation = Run("LEFT")
    /\ player.animations[Run("LEFT")].frames_counter = 1

\* the net change the held keys ask for on each axis
NetX == (IF "KEY_D" \in keysDown THEN player.speed ELSE 0)
          - (IF "KEY_A" \in keysDown THEN player.speed ELSE 0)
NetY == (IF "KEY_S" \in keysDown THEN player.speed ELSE 0)
          - (IF "KEY_W" \in keysDown THEN player.speed ELSE 0)

SeveralHeld == Cardinality(keysDown) >= 2 /\ Released = {}

\* C8 as stated: with several keys down and none released, every held move is
\* applied (opposite directions cancel to a net zero) and the animation is
\* Run of the held direction last in the order A, D, S, W.
C8_Original ==
    [][(InputStep /\ SeveralHeld) =>
          /\ player'.pos.x = player.pos.x + NetX
          /\ player'.pos.y = player.pos.y + NetY
          /\ player'.current_animation = Run(KeyDirection(LastOf(keysDown)))]_vars

\* C8 as amended: with several keys down and none released, the held moves
\* are applied as f32 additions in the order A, D, S, W, which is the exact
\* net change (opposite directions cancelling) whenever the coordinate stays
\* within magnitude 2^24, and the animation is Run of the held direction
\* last in that order.
C8_HeldMovesInOrder ==
    [][(InputStep /\ SeveralHeld) =>
          /\ player'.current_animation = Run(KeyDirection(LastOf(keysDown)))
          /\ player'.pos.x =
                 LET x1 == IF "KEY_A" \in keysDown
                           THEN F32Round(player.pos.x - player.speed)
                           ELSE player.pos.x
                 IN  IF "KEY_D" \in keysDown
                     THEN F32Round(x1 + player.speed) ELSE x1
          /\ player'.pos.y =
                 LET y1 == IF "KEY_S" \in keysDown
                           THEN F32Round(player.pos.y + player.speed)
                           ELSE player.pos.y
                 IN  IF "KEY_W" \in keysDown
                     THEN F32Round(y1 - player.speed) ELSE y1
          /\ Abs(player.pos.x) + player.speed <= F32Exact =>
                 player'.pos.x = player.pos.x + NetX
          /\ Abs(player.pos.y) + player.speed <= F32Exact =>
                 player'.pos.y = player.pos.y + NetY]_vars

\* A, S and W are held from the origin: the player has moved left only and
\* shows Run(UP)
C8_Witness ==
    /\ pc = "animate"
    /\ keysDown = {"KEY_A", "KEY_S", "KEY_W"}
    /\ keysPrev = {}
    /\ player.pos = [x |-> -HeroSpeed, y |-> 0]
    /\ player.current_animation = Run("UP")

\* C9: an iteration advances the tick counter of the animation that is active
\* after input handling and of no other; input handling and drawing change
\* no animation, so an animation resumes where it was left.
C9_OnlyActiveAdvances ==
    [][/\ (pc = "animate" /\ pc' = "draw") =>
            LET cur == player.current_animation
                old == player.animations[cur]
                new == player'.animations[cur]
                threshold == TicksPerSecond \div old.anim_speed
            IN  /\ player'.current_animation = cur
                /\ DOMAIN player'.animations = DOMAIN player.animations
                /\ \A k \in DOMAIN player.animations \ {cur} :
                       player'.animations[k] = player.animations[k]
                /\ new.frames_counter = (old.frames_counter + 1) % threshold
                /\ new.current_frame =
                       IF old.frames_counter + 1 = threshold
                       THEN (old.current_frame + 1) % old.num_frames
                       ELSE old.current_frame
       /\ pc \in {"loop", "draw"} => player'.animations = player.animations]_vars

\* Idle(DOWN) ran one tick, Run(DOWN) one tick while S was held, and after the
\* release Idle(DOWN) has resumed at its second tick
C9_Witness ==
    /\ pc = "draw"
    /\ player.current_animation = Idle("DOWN")
    /\ player.animations[Idle("DOWN")].frames_counter = 2
    /\ player.animations[Run("DOWN")].frames_counter = 1

\* C10: with a key reported released exactly when it is up after being down,
\* an iteration with no movement key down ends input handling in an Idle
\* animation and with the position unchanged.
C10_IdleWhenNoKeyDown ==
    [][(InputStep /\ keysDown = {}) =>
          /\ player'.current_animation \in {Idle(d) : d \in Direction}
          /\ player'.pos = player.pos]_vars

\* W was held and is released with no key down: the animation is Idle(UP)
C10_Witness ==
    /\ pc = "animate"
    /\ keysDown = {}
    /\ keysPrev = {"KEY_W"}
    /\ player.current_animation = Idle("UP")
    /\ player.pos = [x |-> 0, y |-> -HeroSpeed]

====
